---- MODULE Spec2Model ----
(***************************************************************************)
(* Model of the multi-session WhatsApp gateway (server.ts): the session    *)
(* registry `sessions`, the per-socket connection.update handler, the      *)
(* webhook dispatcher sendWebhook, the 3-second reconnect timer, and the   *)
(* HTTP routes that create, read and delete sessions.                      *)
(*                                                                         *)
(* Node runs one callback at a time, so every action below is one          *)
(* synchronous segment of the code: from the start of a callback (or the   *)
(* resumption of an `await`) to the next `await` (or the end).  There are  *)
(* three kinds of segment.  A callback of the event loop: a request, a     *)
(* timer, a signal.  What the libraries bring about: the continuation of   *)
(* an `await` on a promise they settle (an HTTP call, the awaits of        *)
(* initializeWhatsApp, logout, sendMessage), and the handler of an event a *)
(* socket emits, which the emitter calls synchronously.  The libraries     *)
(* settle and emit when they will, in a turn of the loop of their own or   *)
(* inside a turn that is under way, so a segment of this kind runs at any  *)
(* point: before the promise jobs that are queued, between two of them, or *)
(* after them.  The continuation of an `await` on the promise of an async  *)
(* function of the program (initializeWhatsApp, sendWebhook): it is queued *)
(* as a promise job when that function returns, and the jobs run in the    *)
(* order they were queued, all of them before any new callback.            *)
(***************************************************************************)
EXTENDS Naturals, Sequences, FiniteSets, Bags, TLC

\* ---------------------------------------------------------------- bounds
MaxSock     == 3   \* socket/session objects on the heap at one time
MaxHandlers == 2   \* connection.update handlers suspended on a webhook call
FewSock     == 2   \* the same two, for the specifications that have more
FewHandlers == 1   \* operations than the transports and their webhooks
MaxDeletes  == 1   \* DELETE requests suspended on sock.logout()
MaxTime     == 1   \* ticks of the clock (new Date())
MaxUpserts  == 1   \* messages.upsert handlers suspended on a webhook call
MaxBatch    == 2   \* messages in one messages.upsert event
MaxStatuses == 1   \* messages.update handlers suspended on a webhook call
MaxSends    == 1   \* send requests suspended on sock.sendMessage()

\* A value of a JSON body that is a number is written num:<digits>; every
\* other value here is a string.  A template literal and a URL segment hold
\* the string of the value.
NumId     == "num:5"     \* the number 5 as req.body.sessionId
NumSecret == "num:123"   \* the number 123 as req.body.secret
IsString(v) == v \notin {NumId, NumSecret}
String(v)   == IF v = NumId THEN "5" ELSE IF v = NumSecret THEN "123" ELSE v

Ids      == {"default", "s1"}
BodyIds  == Ids \cup {NumId, "5"}   \* req.body.sessionId
UrlIds   == Ids \cup {"5"}          \* req.params.sessionId: always a string
Keys     == BodyIds                 \* the keys the Map can come to hold
QRs      == {"q1"}
Handles  == 1 .. MaxSock
NULL     == "null"
Outcomes == {"ok", "timeout", "refused", "non2xx"}
EnvUrl    == "u0"   \* process.env.WEBHOOK_URL (or the built-in default)
EnvSecret == "k0"   \* process.env.WEBHOOK_SECRET (or the built-in default)
Urls      == {EnvUrl, "u1"}
Secrets   == {EnvSecret, "k1"}
BodySecrets == Secrets \cup {NumSecret}   \* req.body.secret, when truthy
HmacThrows  == "hmacThrows"   \* createHmac threw: no POST was made

VARIABLES
    sessions,          \* Map<string, Session>: id -> handle of the record, 0 = absent
    socks,             \* heap: handle -> the Session object and its socket
    sock,              \* legacy global: handle of the default socket, 0 = null
    qrCode,            \* legacy global
    connectionStatus,  \* legacy global
    inits,             \* bag of initializeWhatsApp calls suspended on their awaits
    timers,            \* pending setTimeout(() => initializeWhatsApp(id), 3000)
    handlers,          \* connection.update handlers suspended in sendWebhook
    deletes,           \* DELETE handlers suspended on session.sock.logout()
    now,               \* the clock
    WEBHOOK_CONFIG,    \* the webhook configuration object: url and secret
    upserts,           \* messages.upsert handlers suspended in sendWebhook
    statuses,          \* messages.update handlers suspended in sendWebhook
    jobs,              \* the promise jobs queued, in the order they will run
    rejected,          \* the session whose initialization was rejected with
                       \* nothing to handle it (the first such; "null": none)
    sends,             \* send routes suspended on sock.sendMessage()
    exited,            \* the process has terminated: nothing runs any more,
                       \* and what was suspended or pending stays so for ever
    step               \* what the last step did (request, response, dispatch)

vars == <<sessions, socks, sock, qrCode, connectionStatus, inits, timers,
          handlers, deletes, now, WEBHOOK_CONFIG, upserts, statuses, jobs,
          rejected, sends, exited, step>>

\* What only the webhook route, the messages.upsert and messages.update
\* handlers and the send routes write.
others == <<WEBHOOK_CONFIG, upserts, statuses, sends>>

\* The queue of promise jobs, and whether the process is to end or has ended.
proc == <<jobs, rejected, exited>>

\* A heap slot that holds no object.
FreeSock == [alloc |-> FALSE, id |-> "-", live |-> FALSE, qrCode |-> NULL,
             status |-> "-", createdAt |-> 0, authFolder |-> "-"]

\* No HTTP request.
NoRequest == [url |-> NULL, signature |-> <<>>, body |-> <<>>]

\* The label of a step: the operation, the session it names, the response
\* sent (if any), the webhook event whose dispatch it started (if any), the
\* socket it concerns, the reason of the close event it delivered, whether
\* it called sock.logout(), and for a step in which sendWebhook ended the
\* line it logged (info on success, error on failure), the number of HTTP
\* POSTs that dispatch made and whether it raised into its caller; the
\* connection field
\* and the qr field of the update it handled (or went on handling), and the
\* request it handed to axios.post; for a step of a messages.upsert handler
\* the messages of its event, the index its loop was at when the step began
\* and the index of the message whose webhook it then awaits (0: loop over);
\* for a webhook registration the url and secret of the request body, for a
\* send request its body, for the legacy status route its answer.
Label(op, sid, res) ==
    [op |-> op, sid |-> sid, res |-> res, hook |-> "-", h |-> 0,
     closed |-> "-", logout |-> FALSE, logged |-> "-", posts |-> 0, raised |-> FALSE,
     conn |-> "-", qr |-> NULL, req |-> NoRequest,
     batch |-> <<>>, lo |-> 0, msg |-> 0,
     arg |-> [url |-> NULL, secret |-> NULL]]

\* ------------------------------------------------------------ heap
Referenced(ss, sk, gs, hd, dl) ==
    {ss[i] : i \in Keys} \cup {gs}
        \cup {hd[k].h : k \in DOMAIN hd} \cup {dl[k].h : k \in DOMAIN dl}
        \cup {h \in Handles : sk[h].live}

\* Objects nothing refers to any more are collected.
Collect(ss, sk, gs, hd, dl) ==
    [h \in Handles |->
        IF h \in Referenced(ss, sk, gs, hd, dl) THEN sk[h] ELSE FreeSock]

FreeHandles == {h \in Handles : ~socks[h].alloc}
NewHandle   == CHOOSE h \in FreeHandles : \A g \in FreeHandles : h <= g

\* Sockets that exist or that the program is already committed to create.
WillReconnect(hd) ==
    {k \in DOMAIN hd :
        /\ hd[k].connection = "close"
        /\ hd[k].pc \in {"qr", "close"}
        /\ hd[k].reason # "loggedOut"}
Load ==
    Cardinality({h \in Handles : socks[h].alloc}) + BagCardinality(inits)
        + Len(timers)
        + Cardinality(WillReconnect(handlers))

\* The bounds of a specification are on what it delivers to the program: a
\* create request for a new id, or a close event that makes the program
\* reconnect, only while fewer than s sockets exist or are to be created; an
\* event whose handler awaits a webhook only while fewer than n handlers are
\* suspended.
Requests(ids, s) == {id \in ids : sessions[id] # 0 \/ Load < s}
Events(us, s, n) ==
    {u \in us :
        /\ (u.qr # "null" \/ u.connection \in {"open", "close"})
              => Len(handlers) < n
        /\ (u.connection = "close" /\ u.reason # "loggedOut") => Load < s}

Call(id, src) == [sid |-> id, src |-> src]
OneCall(c)    == SetToBag({c})

RemoveAt(s, i) == [k \in 1 .. (Len(s) - 1) |-> IF k < i THEN s[k] ELSE s[k + 1]]

Commit(ss, sk, gs, gq, gc, hd, tm, ins, dl, lbl) ==
    /\ sessions' = ss
    /\ socks' = Collect(ss, sk, gs, hd, dl)
    /\ sock' = gs
    /\ qrCode' = gq
    /\ connectionStatus' = gc
    /\ handlers' = hd
    /\ timers' = tm
    /\ inits' = ins
    /\ deletes' = dl
    /\ step' = lbl
    /\ UNCHANGED others

\* The process is up.
Running == ~exited

\* The event loop can take a new callback: no promise job is queued, and no
\* unhandled rejection is about to end the process.
Idle == Running /\ jobs = <<>> /\ rejected = NULL

\* A continuation of an await on a promise a library settled, or the handler
\* of an event a socket emits, can run: at any point of a turn, the promise
\* jobs that are queued then run after it.
Settling == Running

\* The job at the head of the queue, of the given kind, can run.
JobRuns(kind) == Running /\ jobs # <<>> /\ Head(jobs).kind = kind

\* A promise job: the continuation of the create route (kind reply) or of a
\* handler (conn, upsert, status) suspended in an await of which rec tells.
Job(kind, rec) == [kind |-> kind, rec |-> rec]

\* The end of a segment that leaves the jobs js queued: they run in this
\* order, before any new callback of the event loop.
Queued(js) ==
    /\ jobs' = js
    /\ UNCHANGED <<rejected, exited>>

Init ==
    /\ sessions = [i \in Keys |-> 0]
    /\ socks = [h \in Handles |-> FreeSock]
    /\ sock = 0
    /\ qrCode = NULL
    /\ connectionStatus = "disconnected"
    /\ inits = SetToBag({Call("default", "startup")})
    /\ timers = <<>>
    /\ handlers = <<>>
    /\ deletes = <<>>
    /\ now = 0
    /\ WEBHOOK_CONFIG = [url |-> EnvUrl, secret |-> EnvSecret]
    /\ upserts = <<>>
    /\ statuses = <<>>
    /\ jobs = <<>>
    /\ rejected = NULL
    /\ sends = <<>>
    /\ exited = FALSE
    /\ step = Label("listen", "default", "-")

\* ---------------------------------------------------------- registry
\* (variant: a record awaiting its reconnect is not counted as present)
hasUnlessDisconnected(id) ==
    /\ id \in Keys
    /\ sessions[id] # 0 /\ socks[sessions[id]].status # "disconnected"

\* sessions.has(id), and the truthiness of sessions.get(id): the Map
\* compares keys without conversion, so the string "5" is not the key 5.
has(id) == id \in Keys /\ sessions[id] # 0

\* app.post('/api/sessions/create'): the existence check and, if it passes,
\* the call of initializeWhatsApp up to its first await.
CreateSession(id) ==
    IF has(id)
    THEN /\ Idle
         /\ step' = Label("create", id, "AlreadyExists")
         /\ UNCHANGED <<sessions, socks, sock, qrCode, connectionStatus, inits,
                        timers, handlers, deletes, now, proc, others>>
    ELSE /\ Idle
         /\ inits' = inits (+) OneCall(Call(id, "create"))
         /\ step' = Label("createStart", id, "-")
         /\ UNCHANGED <<sessions, socks, sock, qrCode, connectionStatus,
                        timers, handlers, deletes, now, proc, others>>

\* The folder the credentials of a session are kept in: the template
\* literal holds the string of the id.
authFolder(sessionId) ==
    IF sessionId = "default" THEN "baileys_auth_info"
    ELSE "baileys_auth_" \o String(sessionId)

\* The Session object initializeWhatsApp builds around its new socket.
NewSession(id, t) ==
    [alloc |-> TRUE, id |-> id, live |-> TRUE, qrCode |-> NULL,
     status |-> "connecting", createdAt |-> t, authFolder |-> authFolder(id)]

\* What the create route will answer once it goes on after
\* `await initializeWhatsApp(sessionId)`.
Reply(id, res) == [sid |-> id, res |-> res]

\* initializeWhatsApp(sessionId) after its awaits (useMultiFileAuthState,
\* fetchLatestBaileysVersion): makeWASocket, the new Session object,
\* sessions.set, the legacy global, the handler registrations, the return.
\* The create route that awaits the call goes on in a promise job.
initializeWhatsApp(c) ==
    LET h  == NewHandle
        sk == [socks EXCEPT ![h] = NewSession(c.sid, now)]
        ss == [sessions EXCEPT ![c.sid] = h]
        gs == IF c.sid = "default" THEN h ELSE sock
    IN  /\ Settling
        /\ BagIn(c, inits)
        /\ FreeHandles # {}
        /\ Commit(ss, sk, gs, qrCode, connectionStatus, handlers, timers,
                  inits (-) OneCall(c), deletes,
                  [Label(IF c.src = "create" THEN "createSet" ELSE c.src,
                         c.sid, "-")
                      EXCEPT !.h = h])
        /\ Queued(IF c.src = "create"
                   THEN Append(jobs, Job("reply", Reply(c.sid, "ok"))) ELSE jobs)
        /\ UNCHANGED now

\* One of the awaits of initializeWhatsApp, or makeWASocket, throws: the
\* create route will answer 500; the rejection of a call made at start-up is
\* caught (.catch(console.error)); that of a call made by the timer is
\* handled by nobody.
initializeFails(c) ==
    /\ Settling
    /\ BagIn(c, inits)
    /\ Commit(sessions, socks, sock, qrCode, connectionStatus, handlers,
              timers, inits (-) OneCall(c), deletes,
              Label("initFailed", c.sid,
                    IF c.src = "timer" THEN "unhandled" ELSE "-"))
    /\ jobs' = IF c.src = "create"
               THEN Append(jobs, Job("reply", Reply(c.sid, "error"))) ELSE jobs
    /\ rejected' = IF c.src = "timer" /\ rejected = NULL THEN c.sid
                    ELSE rejected
    /\ UNCHANGED <<now, exited>>

\* Node (version 20: the image is node:20.18.0-slim) terminates the process
\* on an unhandled rejection, with exit code 1, once the promise jobs of the
\* turn have run.
Exit ==
    /\ Running
    /\ rejected # NULL
    /\ jobs = <<>>
    /\ exited' = TRUE
    /\ step' = Label("exit", rejected, "1")
    /\ UNCHANGED <<sessions, socks, sock, qrCode, connectionStatus, inits,
                   timers, handlers, deletes, now, jobs, rejected,
                   others>>

\* process.on('SIGTERM'): sock.logout() on the legacy global socket, if there
\* is one (the call is not awaited), and process.exit(0).
Sigterm ==
    /\ Idle
    /\ exited' = TRUE
    /\ step' = [Label("sigterm", "-", "0")
                   EXCEPT !.logout = (sock # 0), !.h = sock]
    /\ UNCHANGED <<sessions, socks, sock, qrCode, connectionStatus, inits,
                   timers, handlers, deletes, now, jobs, rejected,
                   others>>

\* The create route goes on after `await initializeWhatsApp(sessionId)`: the
\* 200 response, or the 500 of its catch block.
CreateReply ==
    /\ JobRuns("reply")
    /\ Queued(Tail(jobs))
    /\ step' = Label("createDone", Head(jobs).rec.sid, Head(jobs).rec.res)
    /\ UNCHANGED <<sessions, socks, sock, qrCode, connectionStatus, inits,
                   timers, handlers, deletes, now, others>>

\* The callback of setTimeout(() => initializeWhatsApp(sessionId), 3000):
\* timers of equal delay fire in the order they were set.
TimerFire ==
    /\ Idle
    /\ timers # <<>>
    /\ Commit(sessions, socks, sock, qrCode, connectionStatus, handlers,
              Tail(timers), inits (+) OneCall(Call(Head(timers), "timer")),
              deletes, Label("timerFired", Head(timers), "-"))
    /\ UNCHANGED <<now, proc>>

\* --------------------------------------------------- webhook dispatcher
\* The envelope sendWebhook builds.
payload(sessionId, event, data, t) ==
    [sessionId |-> sessionId, event |-> event, data |-> data, timestamp |-> t]

\* JSON.stringify of the envelope: its members in the order of the object
\* literal.
JSON_stringify(p) ==
    << <<"sessionId", p.sessionId>>, <<"event", p.event>>,
       <<"data", p.data>>, <<"timestamp", p.timestamp>> >>

\* crypto.createHmac('sha256', secret).update(text).digest('hex'), as a term.
createHmac(secret, text) == <<"hmac-sha256-hex", secret, text>>

\* The call axios.post(WEBHOOK_CONFIG.url, payload, {headers: {...
\* 'x-webhook-signature': signature}}) of sendWebhook: the secret and the url
\* are read from the configuration in the same synchronous segment, and axios
\* sends the JSON serialization of the payload object as the body.
axios_post(cfg, p) ==
    [url       |-> cfg.url,
     signature |-> createHmac(cfg.secret, JSON_stringify(p)),
     body      |-> JSON_stringify(p)]

\* crypto.createHmac('sha256', secret) takes a string (or a buffer).
Signs(cfg) == IsString(cfg.secret)

\* The request of the dispatch a step starts (a step starts at most one: it
\* ends at the await of sendWebhook). createHmac throws on a secret that is
\* not a string, inside the try of sendWebhook: then no request is made.
Dispatch(event, data, sessionId) ==
    IF event = "-" \/ ~Signs(WEBHOOK_CONFIG) THEN NoRequest
    ELSE axios_post(WEBHOOK_CONFIG, payload(sessionId, event, data, now))

NoData == [none |-> TRUE]

\* (variant: the catch block logs and rethrows)
sendWebhookRethrows(outcome) ==
    [posts |-> IF outcome = HmacThrows THEN 0 ELSE 1, raised |-> outcome # "ok",
     logged |-> IF outcome = "ok" THEN "info" ELSE "error"]

\* sendWebhook, once it is over: the body is one try/catch around createHmac
\* and one axios.post, so whatever the outcome it made at most one POST (none
\* if createHmac threw), logged one line and raises nothing.
sendWebhook(outcome) ==
    [posts |-> IF outcome = HmacThrows THEN 0 ELSE 1, raised |-> FALSE,
     logged |-> IF outcome = "ok" THEN "info" ELSE "error"]

\* The promise sendWebhook returned, once the call that gave r is over.
Promise(r) == IF r.raised THEN "rejected" ELSE "fulfilled"

\* What sendWebhook(event, ...) has done when it returns its promise to the
\* caller: nothing yet if it awaits its HTTP call; all of it if createHmac
\* threw.
Returned(event) ==
    IF event # "-" /\ ~Signs(WEBHOOK_CONFIG) THEN sendWebhook(HmacThrows)
    ELSE [posts |-> 0, raised |-> FALSE, logged |-> "-"]

\* The promise of a sendWebhook that has just been called.
Awaited ==
    IF Signs(WEBHOOK_CONFIG) THEN "pending"
    ELSE Promise(sendWebhook(HmacThrows))

\* `await sendWebhook(...)` by the handler rec tells of: its continuation is
\* queued at once if the promise is settled already.
Await(js, kind, rec) ==
    IF rec.promise = "pending" THEN js ELSE Append(js, Job(kind, rec))

\* The least index at which the sequence s holds rec.
IndexOf(s, rec) ==
    CHOOSE k \in DOMAIN s : s[k] = rec /\ \A j \in 1 .. (k - 1) : s[j] # rec

\* ------------------------------------------- connection.update handler
DisconnectReason_loggedOut == "loggedOut"
shouldReconnect(reason) == reason # DisconnectReason_loggedOut

Updates ==
    {u \in [connection : {"none", "connecting", "open", "close"},
            reason : {"-", "loggedOut", "connectionLost"},
            qr : QRs \cup {NULL}] :
        /\ (u.connection = "close") <=> (u.reason # "-")
        /\ ~(u.connection = "none" /\ u.qr = NULL)}

\* A handler suspended in `await sendWebhook(...)`: the socket, the await it
\* is at, the connection and lastDisconnect of its update, the qr of its
\* update while it is at the await of `if (qr)` (nothing reads it later), and
\* the state of the promise it awaits (pending while the HTTP call is under
\* way).
Suspended(h, pc, u) ==
    [h |-> h, pc |-> pc, connection |-> u.connection, reason |-> u.reason,
     qr |-> IF pc = "qr" THEN u.qr ELSE NULL, promise |-> Awaited]

\* (variant: the close branch sets the status and sends no webhook)
OnConnectionCloseQuiet(m, h, u) ==
    LET dflt == m.socks[h].id = "default"
    IN  CASE u.connection = "close" ->
                [m EXCEPT !.socks[h].status = "disconnected",
                          !.connectionStatus = IF dflt THEN "disconnected" ELSE @]
          [] u.connection = "open" ->
                [m EXCEPT !.socks[h].status = "connected",
                          !.socks[h].qrCode = NULL,
                          !.connectionStatus = IF dflt THEN "connected" ELSE @,
                          !.qrCode = IF dflt THEN NULL ELSE @,
                          !.handlers = Append(@, Suspended(h, "open", u)),
                          !.hook = "connected",
                          !.data = [sessionId |-> m.socks[h].id]]
          [] u.connection = "connecting" ->
                [m EXCEPT !.socks[h].status = "connecting",
                          !.connectionStatus = IF dflt THEN "connecting" ELSE @]
          [] OTHER -> m

\* (variant: the open branch sets the status and sends no webhook)
OnConnectionOpenQuiet(m, h, u) ==
    LET dflt == m.socks[h].id = "default"
    IN  CASE u.connection = "close" ->
                [m EXCEPT !.socks[h].status = "disconnected",
                          !.connectionStatus = IF dflt THEN "disconnected" ELSE @,
                          !.handlers = Append(@, Suspended(h, "close", u)),
                          !.hook = "disconnected",
                          !.data = [reason |-> u.reason]]
          [] u.connection = "open" ->
                [m EXCEPT !.socks[h].status = "connected",
                          !.socks[h].qrCode = NULL,
                          !.connectionStatus = IF dflt THEN "connected" ELSE @,
                          !.qrCode = IF dflt THEN NULL ELSE @]
          [] u.connection = "connecting" ->
                [m EXCEPT !.socks[h].status = "connecting",
                          !.connectionStatus = IF dflt THEN "connecting" ELSE @]
          [] OTHER -> m

\* The handler from `if (connection === 'close')` on, up to its next await.
\* m holds what the handler can write: the heap, the legacy globals, the
\* suspended handlers, and the webhook event whose dispatch it starts.
OnConnection(m, h, u) ==
    LET dflt == m.socks[h].id = "default"
    IN  CASE u.connection = "close" ->
                [m EXCEPT !.socks[h].status = "disconnected",
                          !.connectionStatus = IF dflt THEN "disconnected" ELSE @,
                          !.handlers = Append(@, Suspended(h, "close", u)),
                          !.hook = "disconnected",
                          !.data = [reason |-> u.reason]]
          [] u.connection = "open" ->
                [m EXCEPT !.socks[h].status = "connected",
                          !.socks[h].qrCode = NULL,
                          !.connectionStatus = IF dflt THEN "connected" ELSE @,
                          !.qrCode = IF dflt THEN NULL ELSE @,
                          !.handlers = Append(@, Suspended(h, "open", u)),
                          !.hook = "connected",
                          !.data = [sessionId |-> m.socks[h].id]]
          [] u.connection = "connecting" ->
                [m EXCEPT !.socks[h].status = "connecting",
                          !.connectionStatus = IF dflt THEN "connecting" ELSE @]
          [] OTHER -> m

\* The handler from its start: `if (qr)` and then the rest.
OnUpdate(m, h, u) ==
    IF u.qr # NULL
    THEN [m EXCEPT !.socks[h].qrCode = u.qr,
                   !.qrCode = IF m.socks[h].id = "default" THEN u.qr ELSE @,
                   !.handlers = Append(@, Suspended(h, "qr", u)),
                   !.hook = "qr",
                   !.data = [qr |-> u.qr]]
    ELSE OnConnection(m, h, u)

\* The socket h emits connection.update: the emitter calls the handler, which
\* runs up to its first await. A socket that reports `close` is closed: it
\* emits nothing further.
ConnectionUpdate(h, u) ==
    LET m0 == [socks |-> [socks EXCEPT ![h].live = (u.connection # "close")],
               qrCode |-> qrCode, connectionStatus |-> connectionStatus,
               handlers |-> handlers, hook |-> "-", data |-> NoData]
        m  == OnUpdate(m0, h, u)
    IN  /\ Settling
        /\ socks[h].live
        /\ Commit(sessions, m.socks, sock, m.qrCode, m.connectionStatus,
                  m.handlers, timers, inits, deletes,
                  [Label("update", socks[h].id, "-")
                      EXCEPT !.hook = m.hook, !.h = h, !.closed = u.reason,
                             !.conn = u.connection, !.qr = u.qr,
                             !.req = Dispatch(m.hook, m.data, socks[h].id),
                             !.logged = Returned(m.hook).logged,
                             !.posts = Returned(m.hook).posts,
                             !.raised = Returned(m.hook).raised])
        /\ Queued(IF m.hook = "-" THEN jobs
                   ELSE Await(jobs, "conn", m.handlers[Len(m.handlers)]))
        /\ UNCHANGED now

\* sendWebhook goes on after `await axios.post(...)` of the dispatch that
\* handler k awaits: the HTTP call ended with outcome; the line is logged and
\* the function returns, which queues the continuation of the handler.
WebhookSettled(k, outcome) ==
    LET r   == sendWebhook(outcome)
        rec == [handlers[k] EXCEPT !.promise = Promise(r)]
    IN  /\ Settling
        /\ handlers[k].promise = "pending"
        /\ handlers' = [handlers EXCEPT ![k] = rec]
        /\ Queued(Append(jobs, Job("conn", rec)))
        /\ step' = [Label("webhookSettled", socks[rec.h].id, "-")
                       EXCEPT !.h = rec.h, !.logged = r.logged,
                              !.posts = r.posts, !.raised = r.raised]
        /\ UNCHANGED <<sessions, socks, sock, qrCode, connectionStatus, inits,
                       timers, deletes, now, others>>

\* The suspended handler k goes on after `await sendWebhook(...)`: after the
\* qr webhook with the connection part, after the disconnected webhook with
\* the reconnect timer or the removal of the id. Had the call raised, the
\* async handler would have ended there.
Resume(k) ==
    LET c    == handlers[k]
        id   == socks[c.h].id
        rest == RemoveAt(handlers, k)
        ok   == c.promise = "fulfilled"
        m0   == [socks |-> socks, qrCode |-> qrCode,
                 connectionStatus |-> connectionStatus,
                 handlers |-> rest, hook |-> "-", data |-> NoData]
        m    == IF ok /\ c.pc = "qr" THEN OnConnection(m0, c.h, c) ELSE m0
        go   == ok /\ c.pc = "close"
        tm   == IF go /\ shouldReconnect(c.reason) THEN Append(timers, id) ELSE timers
        del  == go /\ ~shouldReconnect(c.reason)
        ss   == IF del THEN [sessions EXCEPT ![id] = 0] ELSE sessions
    IN  /\ Commit(ss, m.socks, sock, m.qrCode, m.connectionStatus, m.handlers,
                  tm, inits, deletes,
                  [Label("webhookDone", id, "-")
                      EXCEPT !.hook = m.hook, !.h = c.h,
                             !.closed = IF go THEN c.reason ELSE "-",
                             !.conn = IF ok /\ c.pc = "qr"
                                      THEN c.connection ELSE "-",
                             !.qr = IF ok /\ c.pc = "qr" THEN c.qr ELSE NULL,
                             !.req = Dispatch(m.hook, m.data, id),
                             !.logged = Returned(m.hook).logged,
                             !.posts = Returned(m.hook).posts,
                             !.raised = Returned(m.hook).raised])
        /\ Queued(IF m.hook = "-" THEN Tail(jobs)
                  ELSE Await(Tail(jobs), "conn", m.handlers[Len(m.handlers)]))
        /\ UNCHANGED now

\* The job at the head of the queue is the continuation of the
\* connection.update handler k.
WebhookDone(k) ==
    /\ JobRuns("conn")
    /\ k = IndexOf(handlers, Head(jobs).rec)
    /\ Resume(k)

\* ------------------------------------------------------ other routes
\* app.delete('/api/sessions/:sessionId') for a session that was found, up
\* to `await session.sock.logout()`.
DeleteStart(id) ==
    /\ Idle
    /\ Len(deletes) < MaxDeletes
    /\ deletes' = Append(deletes, [sid |-> id, h |-> sessions[id]])
    /\ step' = [Label("deleteStart", id, "-")
                   EXCEPT !.logout = TRUE, !.h = sessions[id]]
    /\ UNCHANGED <<sessions, socks, sock, qrCode, connectionStatus, inits,
                   timers, handlers, now, proc, others>>

\* (variant: no `if (!session)` check, so session.sock throws on an absent
\* id and the catch block answers 500)
DeleteSessionUnchecked(id) ==
    IF ~has(id)
    THEN /\ Idle
         /\ step' = Label("delete", id, "error")
         /\ UNCHANGED <<sessions, socks, sock, qrCode, connectionStatus, inits,
                        timers, handlers, deletes, now, proc, others>>
    ELSE DeleteStart(id)

\* app.delete('/api/sessions/:sessionId').
DeleteSession(id) ==
    IF ~has(id)
    THEN /\ Idle
         /\ step' = Label("delete", id, "NotFound")
         /\ UNCHANGED <<sessions, socks, sock, qrCode, connectionStatus, inits,
                        timers, handlers, deletes, now, proc, others>>
    ELSE DeleteStart(id)

\* logout() resolved: the socket is closed; sessions.delete(sessionId) and the
\* 200 response. (A close event the socket reports for the logout is a
\* ConnectionUpdate with reason loggedOut, delivered before this step.)
logoutResolves(k) ==
    LET c == deletes[k]
    IN  /\ Settling
        /\ Commit([sessions EXCEPT ![c.sid] = 0],
                  [socks EXCEPT ![c.h].live = FALSE],
                  sock, qrCode, connectionStatus, handlers, timers, inits,
                  RemoveAt(deletes, k),
                  [Label("deleteDone", c.sid, "ok") EXCEPT !.h = c.h])
        /\ UNCHANGED <<now, proc>>

\* logout() rejected: the catch block answers 500.
logoutRejects(k) ==
    LET c == deletes[k]
    IN  /\ Settling
        /\ Commit(sessions, socks, sock, qrCode, connectionStatus, handlers,
                  timers, inits, RemoveAt(deletes, k),
                  [Label("deleteDone", c.sid, "error") EXCEPT !.h = c.h])
        /\ UNCHANGED <<now, proc>>

\* app.get('/api/sessions/:sessionId/status'): what it answers.
StatusLookup(id) ==
    IF ~has(id) THEN "NotFound" ELSE socks[sessions[id]].status

GetStatus(id) ==
    /\ Idle
    /\ step' = Label("getStatus", id, StatusLookup(id))
    /\ UNCHANGED <<sessions, socks, sock, qrCode, connectionStatus, inits,
                   timers, handlers, deletes, now, proc, others>>

\* app.get('/api/sessions/:sessionId/qr'): what it answers (404 'Session not
\* found', 404 'No QR code available', or the QR code).
QrLookup(id) ==
    IF ~has(id) THEN "NotFound"
    ELSE IF socks[sessions[id]].qrCode = NULL THEN "NoQR"
         ELSE socks[sessions[id]].qrCode

\* (variant: a QR code is served once: the route clears it after answering)
GetQrOnce(id) ==
    /\ Idle
    /\ step' = Label("getQr", id, QrLookup(id))
    /\ socks' = IF has(id) THEN [socks EXCEPT ![sessions[id]].qrCode = NULL]
                ELSE socks
    /\ UNCHANGED <<sessions, sock, qrCode, connectionStatus, inits,
                   timers, handlers, deletes, now, proc, others>>

GetQr(id) ==
    /\ Idle
    /\ step' = Label("getQr", id, QrLookup(id))
    /\ UNCHANGED <<sessions, socks, sock, qrCode, connectionStatus, inits,
                   timers, handlers, deletes, now, proc, others>>

\* The socket h emits a refreshed QR code (the library emits a new one each
\* time the previous one times out).
RefreshedQr == "q2"
QrRefresh(h) ==
    ConnectionUpdate(h, [connection |-> "none", reason |-> "-", qr |-> RefreshedQr])

\* ------------------------------------------------------- send routes
\* Request bodies of the send routes: with or without the recipient and the
\* content (text or media url), of type text or image.
SendBodies == [complete : BOOLEAN, type : {"text", "image"}]

\* sessions.get(sessionId) || (sessionId === 'default'
\*     ? { sock, status: connectionStatus } : null), null being [sock |-> 0].
SessionFor(id) ==
    IF has(id) THEN [sock |-> sessions[id], status |-> socks[sessions[id]].status]
    ELSE IF id = "default" THEN [sock |-> sock, status |-> connectionStatus]
    ELSE [sock |-> 0, status |-> "-"]

\* !(!session || !session.sock || session.status !== 'connected')
Sendable(s) == s.sock # 0 /\ s.status = "connected"

\* What a send route does with a request up to its await: the response it
\* sends at once, or ("-") none yet and the socket whose sendMessage it calls
\* (0: none). types are the values of the type field the route accepts.
SendResult(s, body, types) ==
    IF ~body.complete THEN [res |-> "BadRequest", h |-> 0]
    ELSE IF ~Sendable(s) THEN [res |-> "NotConnected", h |-> 0]
    ELSE IF body.type \notin types THEN [res |-> "BadRequest", h |-> 0]
    ELSE [res |-> "-", h |-> s.sock]

\* A send route from its start to its response or to
\* `await sock.sendMessage(...)`.
SendStart(route, id, r, body) ==
    /\ Idle
    /\ r.h # 0 => Len(sends) < MaxSends
    /\ sends' = IF r.h = 0 THEN sends
                ELSE Append(sends, [route |-> route, sid |-> id, h |-> r.h,
                                    body |-> body])
    /\ step' = [Label(route, id, r.res) EXCEPT !.h = r.h, !.arg = body]
    /\ UNCHANGED <<sessions, socks, sock, qrCode, connectionStatus, inits,
                   timers, handlers, deletes, now, proc,
                   WEBHOOK_CONFIG, upserts, statuses>>

\* app.post('/api/messages/send')
SendMessage(id, body) ==
    SendStart("send", id, SendResult(SessionFor(id), body, {"text"}), body)

\* app.post('/send-message'): the legacy route, on the legacy globals; it has
\* no type field.
LegacySendMessage(body) ==
    /\ body.type = "text"
    /\ SendStart("legacySend", "default",
                 SendResult([sock |-> sock, status |-> connectionStatus], body,
                            {"text"}),
                 body)

\* app.post('/send-media'): the legacy media route; type is its mediaType
\* (image, video and audio are accepted alike; text stands for any other).
LegacySendMedia(body) ==
    SendStart("legacyMedia", "default",
              SendResult([sock |-> sock, status |-> connectionStatus], body,
                         {"image"}),
              body)

\* sendMessage of the suspended send route k is over: 200 if it resolved,
\* the 500 of the catch block if it rejected.
SendOutcomes == {"ok", "error"}
SendDone(k, outcome) ==
    /\ Settling
    /\ sends' = RemoveAt(sends, k)
    /\ step' = [Label(CASE sends[k].route = "send" -> "sendDone"
                        [] sends[k].route = "legacySend" -> "legacySendDone"
                        [] OTHER -> "legacyMediaDone",
                      sends[k].sid, outcome)
                   EXCEPT !.h = sends[k].h, !.arg = sends[k].body]
    /\ UNCHANGED <<sessions, socks, sock, qrCode, connectionStatus, inits,
                   timers, handlers, deletes, now, proc,
                   WEBHOOK_CONFIG, upserts, statuses>>

\* ------------------------------------------------ webhook registration
\* (variant: a request without a secret resets the secret to the one the
\* process started with)
RegisteredResetsSecret(cfg, url, secret) ==
    [url |-> url, secret |-> IF secret # NULL THEN secret ELSE EnvSecret]

\* WEBHOOK_CONFIG.url = url; if (secret) { WEBHOOK_CONFIG.secret = secret }
Registered(cfg, url, secret) ==
    [url |-> url, secret |-> IF secret # NULL THEN secret ELSE cfg.secret]

\* app.post('/api/webhook/register'); NULL stands for a url or secret that is
\* absent from the body (or falsy). The secret is stored as it is given,
\* string or not.
RegisterWebhook(url, secret) ==
    /\ Idle
    /\ WEBHOOK_CONFIG' = IF url = NULL THEN WEBHOOK_CONFIG
                         ELSE Registered(WEBHOOK_CONFIG, url, secret)
    /\ step' = [Label("register", "-", IF url = NULL THEN "BadRequest" ELSE "ok")
                   EXCEPT !.arg = [url |-> url, secret |-> secret]]
    /\ UNCHANGED <<sessions, socks, sock, qrCode, connectionStatus, inits,
                   timers, handlers, deletes, now, upserts, statuses,
                   sends, proc>>

\* ------------------------------------------- messages.upsert handler
\* A message of a messages.upsert event: its key, its content (absent for a
\* message that carries none), its timestamp, the sender's display name.
Msg(i, fromMe, content) ==
    [key |-> [id |-> i, fromMe |-> fromMe], message |-> content,
     messageTimestamp |-> i, pushName |-> "peer"]
Batches ==
    UNION {{[i \in 1 .. n |-> Msg(i, f[i], c[i])] :
               f \in [1 .. n -> BOOLEAN], c \in [1 .. n -> {NULL, "hi"}]} :
           n \in 1 .. MaxBatch}

\* (variant: every message that is not fromMe is republished)
RepublishedAnyContent(m) == ~m.key.fromMe

\* if (!m.key.fromMe && m.message)
Republished(m) == ~m.key.fromMe /\ m.message # NULL

\* The for loop from index i on: the index of the next message it sends a
\* webhook for, 0 if it runs to the end.
NextSent(batch, i) ==
    LET js == {j \in (i + 1) .. Len(batch) : Republished(batch[j])}
    IN  IF js = {} THEN 0 ELSE CHOOSE j \in js : \A g \in js : j <= g

MessageData(m) ==
    [key |-> m.key, message |-> m.message,
     messageTimestamp |-> m.messageTimestamp, pushName |-> m.pushName]

\* The loop of the handler of session sid over batch, from index i up to
\* its next await (or its end); hd are the other suspended handlers, js the
\* jobs that are queued; raised: the handler goes on from an await that
\* threw, which ends it.
UpsertLoop(op, sid, batch, i, hd, js, raised) ==
    LET j   == IF raised THEN 0 ELSE NextSent(batch, i)
        rec == [sid |-> sid, batch |-> batch, i |-> j, promise |-> Awaited]
        r   == Returned(IF j = 0 THEN "-" ELSE "message")
    IN  /\ upserts' = IF j = 0 THEN hd ELSE Append(hd, rec)
        /\ jobs' = IF j = 0 THEN js ELSE Await(js, "upsert", rec)
        /\ step' = [Label(op, sid, "-")
                       EXCEPT !.batch = batch, !.lo = i, !.msg = j,
                              !.hook = IF j = 0 THEN "-" ELSE "message",
                              !.req = IF j = 0 THEN NoRequest
                                      ELSE Dispatch("message",
                                                    MessageData(batch[j]), sid),
                              !.logged = r.logged, !.posts = r.posts,
                              !.raised = r.raised]
        /\ UNCHANGED <<sessions, socks, sock, qrCode, connectionStatus, inits,
                       timers, handlers, deletes, now, WEBHOOK_CONFIG, statuses,
                       sends, rejected, exited>>

\* The socket h emits messages.upsert.
MessagesUpsert(h, batch) ==
    /\ Settling
    /\ socks[h].live
    /\ Len(upserts) < MaxUpserts
    /\ UpsertLoop("upsert", socks[h].id, batch, 0, upserts, jobs, FALSE)

\* sendWebhook goes on after `await axios.post(...)` of the dispatch that
\* messages.upsert handler k awaits.
MessageWebhookSettled(k, outcome) ==
    LET r   == sendWebhook(outcome)
        rec == [upserts[k] EXCEPT !.promise = Promise(r)]
    IN  /\ Settling
        /\ upserts[k].promise = "pending"
        /\ upserts' = [upserts EXCEPT ![k] = rec]
        /\ Queued(Append(jobs, Job("upsert", rec)))
        /\ step' = [Label("messageWebhookSettled", rec.sid, "-")
                       EXCEPT !.batch = rec.batch, !.lo = rec.i, !.msg = rec.i,
                              !.logged = r.logged, !.posts = r.posts,
                              !.raised = r.raised]
        /\ UNCHANGED <<sessions, socks, sock, qrCode, connectionStatus, inits,
                       timers, handlers, deletes, now, WEBHOOK_CONFIG, statuses,
                       sends>>

\* The job at the head of the queue is the continuation of messages.upsert
\* handler k after `await sendWebhook(...)`: the loop goes on.
MessageWebhookDone(k) ==
    /\ JobRuns("upsert")
    /\ k = IndexOf(upserts, Head(jobs).rec)
    /\ UpsertLoop("messageWebhookDone", upserts[k].sid, upserts[k].batch,
                  upserts[k].i, RemoveAt(upserts, k), Tail(jobs),
                  upserts[k].promise = "rejected")

\* ------------------------------------------- messages.update handler
\* A message status update: the key of the message and what changed.
MsgUpdate(i) ==
    [key |-> [id |-> i, fromMe |-> TRUE], update |-> [status |-> "READ"]]
UpdateBatches ==
    {[i \in 1 .. n |-> MsgUpdate(i)] : n \in 1 .. MaxBatch}

\* The loop of the handler of session sid over the updates, from index i up
\* to its next await (or its end): every update is sent; hd are the other
\* suspended handlers, js the jobs that are queued; raised: the handler goes
\* on from an await that threw, which ends it.
StatusLoop(op, sid, batch, i, hd, js, raised) ==
    LET j   == IF raised \/ i >= Len(batch) THEN 0 ELSE i + 1
        rec == [sid |-> sid, batch |-> batch, i |-> j, promise |-> Awaited]
        r   == Returned(IF j = 0 THEN "-" ELSE "status")
    IN  /\ statuses' = IF j = 0 THEN hd ELSE Append(hd, rec)
        /\ jobs' = IF j = 0 THEN js ELSE Await(js, "status", rec)
        /\ step' = [Label(op, sid, "-")
                       EXCEPT !.batch = batch, !.lo = i, !.msg = j,
                              !.hook = IF j = 0 THEN "-" ELSE "status",
                              !.req = IF j = 0 THEN NoRequest
                                      ELSE Dispatch("status", batch[j], sid),
                              !.logged = r.logged, !.posts = r.posts,
                              !.raised = r.raised]
        /\ UNCHANGED <<sessions, socks, sock, qrCode, connectionStatus, inits,
                       timers, handlers, deletes, now, WEBHOOK_CONFIG, upserts,
                       sends, rejected, exited>>

\* The socket h emits messages.update.
MessagesUpdate(h, batch) ==
    /\ Settling
    /\ socks[h].live
    /\ Len(statuses) < MaxStatuses
    /\ StatusLoop("statusUpdate", socks[h].id, batch, 0, statuses, jobs, FALSE)

\* sendWebhook goes on after `await axios.post(...)` of the dispatch that
\* messages.update handler k awaits.
StatusWebhookSettled(k, outcome) ==
    LET r   == sendWebhook(outcome)
        rec == [statuses[k] EXCEPT !.promise = Promise(r)]
    IN  /\ Settling
        /\ statuses[k].promise = "pending"
        /\ statuses' = [statuses EXCEPT ![k] = rec]
        /\ Queued(Append(jobs, Job("status", rec)))
        /\ step' = [Label("statusWebhookSettled", rec.sid, "-")
                       EXCEPT !.batch = rec.batch, !.lo = rec.i, !.msg = rec.i,
                              !.logged = r.logged, !.posts = r.posts,
                              !.raised = r.raised]
        /\ UNCHANGED <<sessions, socks, sock, qrCode, connectionStatus, inits,
                       timers, handlers, deletes, now, WEBHOOK_CONFIG, upserts,
                       sends>>

\* The job at the head of the queue is the continuation of messages.update
\* handler k after `await sendWebhook(...)`: the loop goes on.
StatusWebhookDone(k) ==
    /\ JobRuns("status")
    /\ k = IndexOf(statuses, Head(jobs).rec)
    /\ StatusLoop("statusWebhookDone", statuses[k].sid, statuses[k].batch,
                  statuses[k].i, RemoveAt(statuses, k), Tail(jobs),
                  statuses[k].promise = "rejected")

\* -------------------------------------------------- creds.update
\* The socket h emits creds.update: saveCreds writes the credentials to the
\* auth directory, which holds no state of the server.
CredsUpdate(h) ==
    /\ Settling
    /\ socks[h].live
    /\ step' = [Label("creds", socks[h].id, "-") EXCEPT !.h = h]
    /\ UNCHANGED <<sessions, socks, sock, qrCode, connectionStatus, inits,
                   timers, handlers, deletes, now, proc, others>>

\* ------------------------------------------- legacy read-only routes
\* app.get('/health'): reports the legacy connection status.
Health ==
    /\ Idle
    /\ step' = Label("health", "-", connectionStatus)
    /\ UNCHANGED <<sessions, socks, sock, qrCode, connectionStatus, inits,
                   timers, handlers, deletes, now, proc, others>>

\* app.get('/status'): what it answers.
LegacyStatus ==
    [connected |-> connectionStatus = "connected",
     status |-> connectionStatus, hasQR |-> qrCode # NULL]

GetLegacyStatus ==
    /\ Idle
    /\ step' = [Label("legacyStatus", "-", "ok") EXCEPT !.arg = LegacyStatus]
    /\ UNCHANGED <<sessions, socks, sock, qrCode, connectionStatus, inits,
                   timers, handlers, deletes, now, proc, others>>

\* app.get('/qr'): what it answers (404 'No QR code available' or the code).
LegacyQr == IF qrCode = NULL THEN "NoQR" ELSE qrCode

GetLegacyQr ==
    /\ Idle
    /\ step' = Label("legacyQr", "-", LegacyQr)
    /\ UNCHANGED <<sessions, socks, sock, qrCode, connectionStatus, inits,
                   timers, handlers, deletes, now, proc, others>>

\* The connection updates a specification with the lesser bounds delivers.
FewUpdates == Events(Updates, FewSock, FewHandlers)

\* What the program does of its own accord and on the requests and socket
\* events it is given.
NextRun ==
    \/ \E id \in Requests(Ids, FewSock) : CreateSession(id)
    \/ \E c \in BagToSet(inits) : initializeWhatsApp(c)
    \/ \E c \in BagToSet(inits) : initializeFails(c)
    \/ CreateReply
    \/ TimerFire
    \/ \E h \in Handles, u \in FewUpdates : ConnectionUpdate(h, u)
    \/ \E k \in DOMAIN handlers, o \in Outcomes : WebhookSettled(k, o)
    \/ \E k \in DOMAIN handlers : WebhookDone(k)
    \/ \E id \in Ids : DeleteSession(id)
    \/ \E k \in DOMAIN deletes : logoutResolves(k)
    \/ \E k \in DOMAIN deletes : logoutRejects(k)
    \/ Exit

\* And the signal that ends it.
Next == NextRun \/ Sigterm

Spec == Init /\ [][Next]_vars

\* The program left to run (no SIGTERM), with the events the code itself is
\* bound to deliver: a timer that was set fires, an HTTP call ends (axios
\* has a 5 s timeout), the awaits of initializeWhatsApp end (one way or the
\* other), a queued promise job runs, an unhandled rejection ends the
\* process.
FairSpec ==
    /\ Init /\ [][NextRun]_vars
    /\ WF_vars(TimerFire)
    /\ WF_vars(\E k \in DOMAIN handlers, o \in Outcomes : WebhookSettled(k, o))
    /\ WF_vars(\E k \in DOMAIN handlers : WebhookDone(k))
    /\ WF_vars(\E c \in BagToSet(inits) : initializeWhatsApp(c) \/ initializeFails(c))
    /\ WF_vars(CreateReply)
    /\ WF_vars(Exit)

\* ================================================================ claims
InRegistry(id) == sessions[id] # 0
Rec(id)        == socks[sessions[id]]
LiveOf(id)     == {h \in Handles : socks[h].live /\ socks[h].id = id}
Frame          == <<sessions, socks, sock, qrCode, connectionStatus, inits,
                    timers, handlers, deletes, now, proc, others>>

\* C1: once delete(id) has completed, id does not re-appear in the registry
\* unless by an explicit create: the step after a completed delete inserts the
\* id only if it is the initialization a create request (or the start-up)
\* called; a reconnect scheduled before the delete does not.
C1_DeletedStaysAbsent ==
    [][(/\ step.op = "deleteDone" /\ step.res = "ok"
        /\ sessions'[step.sid] # 0)
          => step'.op \in {"createSet", "startup"}]_vars

\* C2: for each session id at most one transport is live (created and not
\* yet closed).
C2_OneLiveTransport ==
    \A id \in Keys : Cardinality(LiveOf(id)) <= 1

\* C3: after a connection-close event with a reason other than logged-out, on
\* the socket of a session in the registry, the session eventually is in the
\* registry with status connecting again (or has been removed from it by a
\* delete or a logout), also when building the new transport fails.
ClosedNotLoggedOut(id) ==
    /\ step.op = "update" /\ step.sid = id
    /\ step.closed = "connectionLost"
    /\ sessions[id] = step.h
Connecting(id) == InRegistry(id) /\ Rec(id).status = "connecting"
C3_EventuallyReconnects ==
    \A id \in Ids : ClosedNotLoggedOut(id) ~> (Connecting(id) \/ ~InRegistry(id))

\* C4: the handler of a close event with reason logged-out removes the id
\* from the registry and sets no reconnect timer, and the id then stays absent
\* until an explicit create: the step after the removal inserts the id only
\* if it is the initialization a create request (or the start-up) called.
C4_LoggedOutIsTerminal ==
    [][/\ (step'.op = "webhookDone" /\ step'.closed = "loggedOut")
            => (sessions'[step'.sid] = 0 /\ timers' = timers)
       /\ (/\ step.op = "webhookDone" /\ step.closed = "loggedOut"
           /\ sessions'[step.sid] # 0)
            => step'.op \in {"createSet", "startup"}]_vars

\* C5: a record in the registry, and the legacy globals, hold a QR code only
\* while the status is not connected.
C5_QrOnlyWhenNotConnected ==
    /\ \A id \in Keys :
          (InRegistry(id) /\ Rec(id).qrCode # NULL) => Rec(id).status # "connected"
    /\ qrCode # NULL => connectionStatus # "connected"

\* C6: a create request for an id that is in the registry is answered
\* AlreadyExists and changes nothing (no record, socket, timer or pending call
\* is touched), whatever the status of the record.
C6_CreateExistingRejected ==
    [][\A id \in Keys :
          (/\ sessions[id] # 0
           /\ step'.op \in {"create", "createStart"} /\ step'.sid = id)
            => (step'.res = "AlreadyExists" /\ UNCHANGED Frame)]_vars
C6_Witness ==
    /\ step.op = "create" /\ step.res = "AlreadyExists"
    /\ Rec(step.sid).status = "disconnected"
    /\ \E i \in DOMAIN timers : timers[i] = step.sid

\* C7: when a create request has just answered success, the status lookup
\* for its id (the id as the URL of the lookup holds it) finds a record whose
\* status is initializing or connecting.
C7_CreateThenGet ==
    (step.op = "createDone" /\ step.res = "ok")
        => StatusLookup(String(step.sid)) \in {"initializing", "connecting"}

\* C8: a delete request for an id that is not in the registry is answered
\* NotFound, calls no logout and changes nothing.
C8_DeleteAbsent ==
    [][\A id \in Keys :
          (/\ sessions[id] = 0
           /\ step'.op \in {"delete", "deleteStart"} /\ step'.sid = id)
            => (step'.res = "NotFound" /\ ~step'.logout /\ UNCHANGED Frame)]_vars
C8_Witness ==
    /\ step.op = "delete" /\ step.res = "NotFound"
    /\ \E j \in Keys : j # step.sid /\ InRegistry(j) /\ socks[sessions[j]].live

\* C9: a delete request for an id that is in the registry ends with the
\* record removed and a success response, also when logout fails.
C9_DeleteIgnoresLogoutError ==
    step.op = "deleteDone" => (step.res = "ok" /\ sessions[step.sid] = 0)

\* C10: a webhook dispatch that fails does not raise into the handler that
\* awaits it and made at most one HTTP POST; the end of a dispatch, failed or
\* not, changes nothing but the promise the handler awaits, which it fulfils;
\* and the handler then goes on exactly as after a successful dispatch.
AsAfterSuccess(k) ==
    LET c    == handlers[k]
        id   == socks[c.h].id
        rest == RemoveAt(handlers, k)
        m0   == [socks |-> socks, qrCode |-> qrCode,
                 connectionStatus |-> connectionStatus,
                 handlers |-> rest, hook |-> "-", data |-> NoData]
        m    == IF c.pc = "qr" THEN OnConnection(m0, c.h, c) ELSE m0
        lost == c.pc = "close" /\ c.reason # "loggedOut"
        out  == c.pc = "close" /\ c.reason = "loggedOut"
        ss   == IF out THEN [sessions EXCEPT ![id] = 0] ELSE sessions
    IN  /\ sessions' = ss
        /\ socks' = Collect(ss, m.socks, sock, m.handlers, deletes)
        /\ qrCode' = m.qrCode
        /\ connectionStatus' = m.connectionStatus
        /\ handlers' = m.handlers
        /\ timers' = IF lost THEN Append(timers, id) ELSE timers
        /\ step'.hook = m.hook
        /\ UNCHANGED <<sock, inits, deletes, now>>
C10_FailedDispatchIsHarmless ==
    [][/\ step'.logged = "error" => (~step'.raised /\ step'.posts <= 1)
       /\ step'.op = "webhookSettled" =>
             /\ \E k \in DOMAIN handlers :
                   /\ handlers[k].promise = "pending"
                   /\ handlers' = [handlers EXCEPT ![k].promise = "fulfilled"]
             /\ UNCHANGED <<sessions, socks, sock, qrCode, connectionStatus,
                            timers, inits, deletes, now>>
       /\ step'.op = "webhookDone" =>
             \E k \in DOMAIN handlers :
                 /\ handlers[k].h = step'.h
                 /\ handlers[k].promise = "fulfilled"
                 /\ AsAfterSuccess(k)]_vars
C10_Witness ==
    /\ step.op = "webhookSettled" /\ step.logged = "error" /\ step.posts = 1
    /\ \E k \in DOMAIN handlers :
          /\ handlers[k].h = step.h /\ handlers[k].promise = "fulfilled"
          /\ handlers[k].pc = "close" /\ handlers[k].reason = "connectionLost"
          /\ jobs = <<Job("conn", handlers[k])>>

\* C11: the handling of a close event does not wait on the delivery of the
\* disconnected webhook: in no state is a close handler still suspended on
\* the HTTP call of its webhook with the reconnect timer not yet set (or, for
\* a logged-out close, the id not yet removed from the registry).
C11_CloseDoesNotWaitOnWebhook ==
    \A k \in DOMAIN handlers :
        ~(/\ handlers[k].pc = "close"
          /\ handlers[k].promise = "pending"
          /\ IF handlers[k].reason = "loggedOut"
             THEN sessions[socks[handlers[k].h].id] = handlers[k].h
             ELSE \A i \in DOMAIN timers : timers[i] # socks[handlers[k].h].id)

\* C12: for a session in the registry, a QR event with value v makes the QR
\* lookup of that session return v, and the handling of a connection-open
\* event makes it return "no QR"; the lookup comes to return a value v only by
\* a QR event with value v; and it goes on returning v until the next QR event
\* or until a connection-open event that came with or after v is handled (so
\* it always returns the most recently emitted artifact).
C12_QrLookupLatest ==
    [][\A id \in UrlIds :
          /\ (/\ step'.op = "update" /\ step'.sid = id /\ step'.qr # NULL
              /\ sessions'[id] # 0)
                => QrLookup(id)' = step'.qr
          /\ (/\ step'.hook = "connected" /\ step'.sid = id
              /\ sessions'[id] = step'.h)
                => QrLookup(id)' = "NoQR"
          /\ (/\ QrLookup(id)' \notin {"NotFound", "NoQR"}
              /\ QrLookup(id)' # QrLookup(id))
                => (/\ step'.op = "update" /\ step'.sid = id
                    /\ step'.qr = QrLookup(id)')
          /\ (/\ QrLookup(id) \notin {"NotFound", "NoQR"}
              /\ QrLookup(id)' # QrLookup(id)
              /\ sessions'[id] = sessions[id])
                => /\ step'.sid = id
                   /\ \/ step'.op = "update" /\ step'.qr # NULL
                      \/ step'.op = "update" /\ step'.conn = "open"
                      \/ /\ step'.op = "webhookDone" /\ step'.conn = "open"
                         /\ step'.qr = QrLookup(id)]_vars

\* C13: every connection-open event causes exactly one dispatch of a
\* connected webhook, which carries the id of the event's session, and no
\* connected webhook is dispatched otherwise: an update with connection open
\* and no qr dispatches it at once; one that also carries a qr leaves one
\* handler pending on the qr webhook, and each such handler dispatches it
\* when it goes on; no other step dispatches one.
PendingOpens ==
    Cardinality({k \in DOMAIN handlers :
                    handlers[k].pc = "qr" /\ handlers[k].connection = "open"})
C13_OneConnectedPerOpen ==
    [][/\ (step'.op = "update" /\ step'.conn = "open" /\ step'.qr = NULL)
            => (step'.hook = "connected" /\ PendingOpens' = PendingOpens)
       /\ (step'.op = "update" /\ step'.conn = "open" /\ step'.qr # NULL)
            => (step'.hook = "qr" /\ PendingOpens' = PendingOpens + 1)
       /\ PendingOpens' < PendingOpens
            => (/\ step'.op = "webhookDone" /\ step'.hook = "connected"
                /\ PendingOpens' = PendingOpens - 1)
       /\ step'.hook = "connected"
            => (/\ \/ step'.op = "update" /\ step'.conn = "open" /\ step'.qr = NULL
                   \/ step'.op = "webhookDone" /\ PendingOpens' < PendingOpens
                /\ step'.sid = socks[step'.h].id
                /\ step'.req # NoRequest =>
                      /\ step'.req.body[1] = <<"sessionId", step'.sid>>
                      /\ step'.req.body[2] = <<"event", "connected">>)
       /\ (step'.req # NoRequest /\ step'.req.body[2] = <<"event", "connected">>)
            => step'.hook = "connected"]_vars
C13_Witness ==
    /\ step.op = "webhookDone" /\ step.hook = "connected" /\ step.sid = "s1"
    /\ step.req.body[1] = <<"sessionId", "s1">>
    /\ \E k \in DOMAIN handlers : handlers[k].h = step.h /\ handlers[k].pc = "open"

\* What a step of session a leaves alone: the registry entry of every other
\* session b, its record, its sockets and whether their transports are up,
\* and for b = default the legacy globals.  And what a completed
\* initialization of a gives it: a record of its own, in status connecting.
Up(h) == socks[h].live /\ Running
LeavesOthers(a) ==
    \A b \in Keys \ {a} :
        /\ sessions'[b] = sessions[b]
        /\ \A h \in Handles :
              socks[h].id = b => (socks'[h] = socks[h] /\ Up(h)' = Up(h))
        /\ b = "default" => UNCHANGED <<sock, qrCode, connectionStatus>>
OwnRecord(a) ==
    step'.op \in {"createSet", "startup"} =>
        /\ sessions'[a] # 0
        /\ socks'[sessions'[a]].status = "connecting"
        /\ socks'[sessions'[a]].id = a
        /\ \A b \in Keys \ {a} : sessions'[b] # sessions'[a]

\* C14: a step of session a (an event of its transport, the continuation of
\* one of its handlers, its reconnect and what a failed reconnect leads to,
\* its removal, a request that names it) leaves every other session b as it
\* is: its registry entry, its record (status, qrCode), its sockets and
\* whether their transports are up, and for b = default the legacy globals;
\* and a session whose initialization completes has a record of its own, in
\* status connecting, whatever other creations are under way.
C14_SessionsIndependent ==
    [][\A a \in Keys :
          step'.sid = a => (LeavesOthers(a) /\ OwnRecord(a))]_vars

\* The part of C14 that is about the steps of a process that goes on running.
IndependentWhileRunning ==
    [][\A a \in Keys :
          (step'.sid = a /\ step'.op # "exit")
            => (LeavesOthers(a) /\ OwnRecord(a))]_vars

\* C15: the updates of a socket are applied one at a time in the order the
\* socket emitted them, also when the handler of an earlier update is
\* suspended on a webhook call while a later one is handled: no update is
\* handled while an earlier update of the same socket still has its
\* connection part to apply (which would then be applied after the later
\* one, and overwrite the status it set).
C15_UpdatesAppliedInOrder ==
    [][step'.op = "update" =>
          \A k \in DOMAIN handlers :
              (handlers[k].h = step'.h /\ handlers[k].pc = "qr")
                => \/ handlers[k].connection = "none"
                   \/ step'.qr = NULL /\ step'.conn = handlers[k].connection]_vars

\* What a step of a messages.upsert handler did: it passed over the messages
\* after index lo and, unless it ran to the end of the batch, sent the
\* webhook of message msg, under the handler's session id, carrying that
\* message's key, content, timestamp and sender name. A continuation starts
\* from the index the suspended handler was at.
UpsertStep == step'.op \in {"upsert", "messageWebhookDone"}
PassedOver ==
    (step'.lo + 1) .. (IF step'.msg = 0 THEN Len(step'.batch) ELSE step'.msg - 1)
SentFor(m) ==
    /\ step'.hook = "message"
    /\ step'.req # NoRequest =>
          /\ step'.req.body[1] = <<"sessionId", step'.sid>>
          /\ step'.req.body[2] = <<"event", "message">>
          /\ step'.req.body[3] =
                <<"data", [key |-> m.key, message |-> m.message,
                           messageTimestamp |-> m.messageTimestamp,
                           pushName |-> m.pushName]>>
Chained ==
    /\ step'.op = "upsert" => step'.lo = 0
    /\ step'.op = "messageWebhookDone" =>
          \E k \in DOMAIN upserts :
              /\ upserts[k].sid = step'.sid /\ upserts[k].batch = step'.batch
              /\ upserts[k].i = step'.lo
              /\ step'.lo > 0
    /\ step'.msg # 0 =>
          /\ step'.msg > step'.lo
          /\ \E k \in DOMAIN upserts' :
                /\ upserts'[k].sid = step'.sid
                /\ upserts'[k].batch = step'.batch
                /\ upserts'[k].i = step'.msg
    /\ step'.msg = 0 => (step'.hook = "-" /\ step'.req = NoRequest)

\* C16: for every message of a messages.upsert event, exactly one message
\* webhook is dispatched under the session's id if the message is not fromMe,
\* and none if it is: the loop passes over fromMe messages only, and sends
\* for a message that is not fromMe.
C16_EveryInboundRepublished ==
    [][UpsertStep =>
          /\ Chained
          /\ \A n \in PassedOver : step'.batch[n].key.fromMe
          /\ step'.msg # 0 =>
                (~step'.batch[step'.msg].key.fromMe
                    /\ SentFor(step'.batch[step'.msg]))]_vars

\* C16 as amended: exactly one message webhook for a message that is not
\* fromMe and carries content; none for a message that is fromMe or carries
\* no content.
C16_InboundWithContentRepublished ==
    [][UpsertStep =>
          /\ Chained
          /\ \A n \in PassedOver :
                step'.batch[n].key.fromMe \/ step'.batch[n].message = NULL
          /\ step'.msg # 0 =>
                (/\ ~step'.batch[step'.msg].key.fromMe
                 /\ step'.batch[step'.msg].message # NULL
                 /\ SentFor(step'.batch[step'.msg]))]_vars
C16_Witness ==
    /\ step.op = "upsert" /\ step.msg = 2 /\ step.hook = "message"
    /\ ~step.batch[1].key.fromMe /\ step.batch[1].message = NULL
    /\ step.req.body[1] = <<"sessionId", "s1">>

\* C17: a webhook registration takes effect on the next dispatch, and every
\* dispatch uses a url and a secret that were in the configuration together:
\* a registration with a url sets the url, and the secret if it has one (else
\* the secret stays); nothing else changes the configuration; and a step that
\* dispatches posts to the url, and signs with the secret, of the
\* configuration as it is when the step begins.
C17_ConfigTakesEffectAsSnapshot ==
    [][/\ (step'.op = "register" /\ step'.arg.url # NULL) =>
            /\ WEBHOOK_CONFIG'.url = step'.arg.url
            /\ WEBHOOK_CONFIG'.secret =
                  IF step'.arg.secret # NULL THEN step'.arg.secret
                  ELSE WEBHOOK_CONFIG.secret
       /\ (step'.op # "register" \/ step'.arg.url = NULL) =>
            UNCHANGED WEBHOOK_CONFIG
       /\ step'.req # NoRequest =>
            /\ step'.req.url = WEBHOOK_CONFIG.url
            /\ step'.req.signature[2] = WEBHOOK_CONFIG.secret]_vars
C17_Witness ==
    /\ step.hook = "disconnected" /\ step.req # NoRequest
    /\ step.req.url = "u1" /\ step.req.signature[2] = EnvSecret
    /\ WEBHOOK_CONFIG = [url |-> "u1", secret |-> EnvSecret]

\* C19: a send request (with recipient and text) for a session whose status
\* is not connected is answered NotConnected, calls no sendMessage and changes
\* nothing; and sendMessage is called only on the socket of a session that is
\* in the registry with status connected.
C19_SendOnlyWhenConnected ==
    [][/\ (/\ step'.op \in {"send", "legacySend", "legacyMedia"}
           /\ step'.arg.complete
           /\ sessions[step'.sid] # 0
           /\ socks[sessions[step'.sid]].status # "connected")
            => (step'.res = "NotConnected" /\ step'.h = 0 /\ UNCHANGED Frame)
       /\ (step'.op \in {"send", "legacySend", "legacyMedia"} /\ step'.h # 0)
            => (/\ sessions[step'.sid] = step'.h
                /\ socks[step'.h].status = "connected")]_vars

\* The part of C19 that is about sessions in the registry, on the route that
\* names a session id.
SendToRegistered ==
    [][(step'.op = "send" /\ step'.arg.complete /\ sessions[step'.sid] # 0)
          => IF socks[sessions[step'.sid]].status # "connected"
             THEN step'.res = "NotConnected" /\ step'.h = 0 /\ UNCHANGED Frame
             ELSE step'.arg.type = "text" => step'.h = sessions[step'.sid]]_vars

\* C20: every operation that names a session id that is not in the registry
\* (QR lookup, status lookup, delete, send message with recipient and text)
\* answers NotFound, which is not the answer NotConnected, and leaves the
\* registry as it is.
C20_AbsentIdIsNotFound ==
    [][(/\ step'.op \in {"getQr", "getStatus", "delete", "deleteStart", "send"}
        /\ step'.op = "send" => step'.arg.complete
        /\ sessions[step'.sid] = 0)
          => (step'.res = "NotFound" /\ sessions' = sessions)]_vars

\* The part of C20 that is about the lookups and delete.
LookupsOfAbsentId ==
    [][(/\ step'.op \in {"getQr", "getStatus", "delete", "deleteStart"}
        /\ sessions[step'.sid] = 0)
          => (step'.res = "NotFound" /\ UNCHANGED Frame)]_vars

\* C21: every connection-close event causes exactly one dispatch of a
\* disconnected webhook, under the id of the event's session, and a reconnect
\* is scheduled only after that dispatch was started: an update with
\* connection close and no qr dispatches it at once; one that also carries a
\* qr leaves one handler pending on the qr webhook, and each such handler
\* dispatches it when it goes on; no other step dispatches one; and a timer
\* is set only by the continuation of a handler that was suspended on its
\* disconnected webhook, for that handler's session.
PendingCloses ==
    Cardinality({k \in DOMAIN handlers :
                    handlers[k].pc = "qr" /\ handlers[k].connection = "close"})
AwaitingDisconnected(h) ==
    \E k \in DOMAIN handlers : handlers[k].h = h /\ handlers[k].pc = "close"
C21_OneDisconnectedBeforeReconnect ==
    [][/\ (step'.op = "update" /\ step'.conn = "close" /\ step'.qr = NULL)
            => (step'.hook = "disconnected" /\ PendingCloses' = PendingCloses)
       /\ (step'.op = "update" /\ step'.conn = "close" /\ step'.qr # NULL)
            => (step'.hook = "qr" /\ PendingCloses' = PendingCloses + 1)
       /\ PendingCloses' < PendingCloses
            => (/\ step'.op = "webhookDone" /\ step'.hook = "disconnected"
                /\ PendingCloses' = PendingCloses - 1)
       /\ step'.hook = "disconnected"
            => (/\ \/ step'.op = "update" /\ step'.conn = "close" /\ step'.qr = NULL
                   \/ step'.op = "webhookDone" /\ PendingCloses' < PendingCloses
                /\ step'.sid = socks[step'.h].id
                /\ step'.req # NoRequest =>
                      /\ step'.req.body[1] = <<"sessionId", step'.sid>>
                      /\ step'.req.body[2] = <<"event", "disconnected">>
                /\ \E k \in DOMAIN handlers' :
                       handlers'[k].h = step'.h /\ handlers'[k].pc = "close"
                /\ timers' = timers)
       /\ (step'.req # NoRequest /\ step'.req.body[2] = <<"event", "disconnected">>)
            => step'.hook = "disconnected"
       /\ Len(timers') > Len(timers)
            => (/\ step'.op = "webhookDone" /\ step'.closed = "connectionLost"
                /\ AwaitingDisconnected(step'.h)
                /\ timers' = Append(timers, socks[step'.h].id))]_vars
C21_Witness ==
    /\ step.op = "webhookDone" /\ step.closed = "connectionLost"
    /\ step.sid = "s1"
    /\ timers # <<>> /\ timers[Len(timers)] = "s1"
    /\ sessions["s1"] = step.h /\ socks[step.h].status = "disconnected"

\* C22: the createdAt of a session stays what it was when the session was
\* created, for as long as its id stays in the registry, through every
\* disconnect and reconnect: a step that leaves an id in the registry leaves
\* the createdAt of its record unchanged.  (Stated for the steps that are not
\* the initialization a create request or the start-up called.)
C22_CreatedAtImmutable ==
    [][\A id \in Keys :
          (/\ sessions[id] # 0 /\ sessions'[id] # 0
           /\ step'.op \notin {"createSet", "startup"})
            => socks'[sessions'[id]].createdAt = socks[sessions[id]].createdAt]_vars

\* C23: a record in the registry holds a QR code only while its status is
\* connecting: a record whose status is disconnected holds none.  (The
\* connected records are C5's.)
C23_NoQrWhenDisconnected ==
    \A id \in Keys :
        (sessions[id] # 0 /\ socks[sessions[id]].status = "disconnected")
            => socks[sessions[id]].qrCode = NULL

\* C24: the status and the qrCode of a session are written only by the
\* handler of that session's connection events: a step changes the status or
\* the qrCode of a Session object only if it is a step of the
\* connection.update handler of that object; and the steps that answer a QR
\* lookup, a status lookup, a send request, a webhook registration, a
\* rejected create or the legacy health, status and qr routes, and the steps
\* of the creds.update, messages.upsert and messages.update handlers, leave
\* the registry and the status and qrCode of every session unchanged.
RequestSideOps ==
    {"getQr", "getStatus", "send", "legacySend", "legacyMedia", "sendDone",
     "legacySendDone", "legacyMediaDone", "register", "health",
     "legacyStatus", "legacyQr", "creds", "upsert", "messageWebhookSettled",
     "messageWebhookDone", "statusUpdate", "statusWebhookSettled",
     "statusWebhookDone"}
C24_SingleWriter ==
    [][/\ \A h \in Handles :
            (/\ socks[h].alloc /\ socks'[h].alloc
             /\ \/ socks'[h].status # socks[h].status
                \/ socks'[h].qrCode # socks[h].qrCode)
              => (step'.op \in {"update", "webhookDone"} /\ step'.h = h)
       /\ (\/ step'.op \in RequestSideOps
           \/ step'.op = "create" /\ step'.res = "AlreadyExists")
            => (/\ sessions' = sessions
                /\ \A h \in Handles :
                      /\ socks'[h].status = socks[h].status
                      /\ socks'[h].qrCode = socks[h].qrCode)]_vars
C24_Witness ==
    /\ step.op = "getQr" /\ step.sid = "default" /\ step.res = "q1"
    /\ sessions["default"] # 0
    /\ socks[sessions["default"]].qrCode = "q1"
    /\ socks[sessions["default"]].status = "connecting"
    /\ upserts # <<>> /\ statuses # <<>>

\* C25: whenever the registry holds a record for 'default', the legacy
\* globals connectionStatus and qrCode equal the status and the qrCode of
\* that record.
C25_LegacyGlobalsMirrorDefault ==
    sessions["default"] # 0
        => (/\ connectionStatus = socks[sessions["default"]].status
            /\ qrCode = socks[sessions["default"]].qrCode)

\* ------------------------------------------------ wider specifications
\* Time passes between two readings of the clock. Spec keeps the clock still;
\* SpecClock lets it run, for what depends on createdAt, with the program
\* left to run.
Tick ==
    /\ Running
    /\ now < MaxTime
    /\ now' = now + 1
    /\ step' = Label("tick", "-", "-")
    /\ UNCHANGED <<sessions, socks, sock, qrCode, connectionStatus, inits,
                   timers, handlers, deletes, proc, others>>

NextClock == NextRun \/ Tick
SpecClock == Init /\ [][NextClock]_vars

\* The routes that name a session id, and the legacy send route, with the
\* default session's transport, its webhooks, its reconnects and its
\* deletion (no session is created by request: s1 stays absent).
NextSend ==
    \/ \E c \in BagToSet(inits) : initializeWhatsApp(c)
    \/ \E c \in BagToSet(inits) : initializeFails(c)
    \/ TimerFire
    \/ \E h \in Handles, u \in FewUpdates : ConnectionUpdate(h, u)
    \/ \E k \in DOMAIN handlers, o \in Outcomes : WebhookSettled(k, o)
    \/ \E k \in DOMAIN handlers : WebhookDone(k)
    \/ \E id \in Ids : DeleteSession(id)
    \/ \E k \in DOMAIN deletes : logoutResolves(k)
    \/ \E k \in DOMAIN deletes : logoutRejects(k)
    \/ \E id \in Ids : GetStatus(id)
    \/ \E id \in Ids : GetQr(id)
    \/ \E id \in Ids, b \in SendBodies : SendMessage(id, b)
    \/ \E b \in SendBodies : LegacySendMessage(b)
    \/ \E b \in SendBodies : LegacySendMedia(b)
    \/ \E k \in DOMAIN sends, o \in SendOutcomes : SendDone(k, o)
    \/ Exit
SpecSend == Init /\ [][NextSend]_vars

\* The sockets' inbound messages, with the requests that create and delete
\* sessions (the messages.upsert handler reads nothing of a session but its
\* id).
NextMessages ==
    \/ \E id \in Requests(Ids, FewSock) : CreateSession(id)
    \/ \E c \in BagToSet(inits) : initializeWhatsApp(c)
    \/ \E c \in BagToSet(inits) : initializeFails(c)
    \/ CreateReply
    \/ \E id \in Ids : DeleteSession(id)
    \/ \E k \in DOMAIN deletes : logoutResolves(k)
    \/ \E k \in DOMAIN deletes : logoutRejects(k)
    \/ \E h \in Handles, b \in Batches : MessagesUpsert(h, b)
    \/ \E k \in DOMAIN upserts, o \in Outcomes : MessageWebhookSettled(k, o)
    \/ \E k \in DOMAIN upserts : MessageWebhookDone(k)
SpecMessages == Init /\ [][NextMessages]_vars

\* The default session's transport and its webhooks, with registrations of
\* the webhook configuration and a running clock (no session is created or
\* deleted by request).
NextHooks ==
    \/ \E c \in BagToSet(inits) : initializeWhatsApp(c)
    \/ \E c \in BagToSet(inits) : initializeFails(c)
    \/ TimerFire
    \/ \E h \in Handles, u \in FewUpdates : ConnectionUpdate(h, u)
    \/ \E k \in DOMAIN handlers, o \in Outcomes : WebhookSettled(k, o)
    \/ \E k \in DOMAIN handlers : WebhookDone(k)
    \/ \E h \in Handles, b \in Batches : MessagesUpsert(h, b)
    \/ \E k \in DOMAIN upserts, o \in Outcomes : MessageWebhookSettled(k, o)
    \/ \E k \in DOMAIN upserts : MessageWebhookDone(k)
    \/ \E url \in Urls \cup {NULL}, secret \in BodySecrets \cup {NULL} :
          RegisterWebhook(url, secret)
    \/ Tick
    \/ Exit
SpecHooks == Init /\ [][NextHooks]_vars

\* The operations that answer requests or handle the events of credentials
\* and messages, with the transport of the default session and its webhooks
\* and its reconnects (a create request is one for an id that exists; a
\* messages.upsert event carries one message and a messages.update event one
\* update; a send request has its recipient and content; a registration
\* sets a secret that is a number).
SingleMessages == {b \in Batches : Len(b) = 1}
SingleUpdates  == {b \in UpdateBatches : Len(b) = 1}
CompleteBodies == {b \in SendBodies : b.complete}
NextReaders ==
    \/ \E c \in BagToSet(inits) : initializeWhatsApp(c)
    \/ \E c \in BagToSet(inits) : initializeFails(c)
    \/ \E h \in Handles, u \in FewUpdates : ConnectionUpdate(h, u)
    \/ \E k \in DOMAIN handlers, o \in Outcomes : WebhookSettled(k, o)
    \/ \E k \in DOMAIN handlers : WebhookDone(k)
    \/ \E id \in Ids : has(id) /\ CreateSession(id)
    \/ \E id \in Ids : GetStatus(id)
    \/ \E id \in Ids : GetQr(id)
    \/ \E id \in Ids, b \in CompleteBodies : SendMessage(id, b)
    \/ \E b \in CompleteBodies : LegacySendMessage(b)
    \/ \E b \in CompleteBodies : LegacySendMedia(b)
    \/ \E k \in DOMAIN sends, o \in SendOutcomes : SendDone(k, o)
    \/ \E url \in {"u1", NULL} : RegisterWebhook(url, NumSecret)
    \/ Health
    \/ GetLegacyStatus
    \/ GetLegacyQr
    \/ \E h \in Handles : CredsUpdate(h)
    \/ \E h \in Handles, b \in SingleMessages : MessagesUpsert(h, b)
    \/ \E k \in DOMAIN upserts, o \in Outcomes : MessageWebhookSettled(k, o)
    \/ \E k \in DOMAIN upserts : MessageWebhookDone(k)
    \/ \E h \in Handles, b \in SingleUpdates : MessagesUpdate(h, b)
    \/ \E k \in DOMAIN statuses, o \in Outcomes : StatusWebhookSettled(k, o)
    \/ \E k \in DOMAIN statuses : StatusWebhookDone(k)
    \/ TimerFire
    \/ Exit
SpecReaders == Init /\ [][NextReaders]_vars

\* The create route with the session ids a JSON body can hold, and the routes
\* that take the id from the URL.
NextCreate ==
    \/ \E id \in Requests(BodyIds, FewSock) : CreateSession(id)
    \/ \E c \in BagToSet(inits) : initializeWhatsApp(c)
    \/ \E c \in BagToSet(inits) : initializeFails(c)
    \/ CreateReply
    \/ TimerFire
    \/ \E h \in Handles, u \in FewUpdates : ConnectionUpdate(h, u)
    \/ \E k \in DOMAIN handlers, o \in Outcomes : WebhookSettled(k, o)
    \/ \E k \in DOMAIN handlers : WebhookDone(k)
    \/ \E id \in UrlIds : GetStatus(id)
    \/ \E id \in UrlIds : GetQr(id)
    \/ Exit
SpecCreate == Init /\ [][NextCreate]_vars

\* The transport of the default session with its webhooks and its reconnects,
\* QR codes that are refreshed, and the QR lookup, with up to MaxHandlers
\* handlers suspended at a time (no session is created or deleted by request).
NextQr ==
    \/ \E c \in BagToSet(inits) : initializeWhatsApp(c)
    \/ \E c \in BagToSet(inits) : initializeFails(c)
    \/ TimerFire
    \/ \E h \in Handles, u \in Events(Updates, FewSock, MaxHandlers) :
          ConnectionUpdate(h, u)
    \/ \E h \in Handles : Len(handlers) < MaxHandlers /\ QrRefresh(h)
    \/ \E k \in DOMAIN handlers, o \in Outcomes : WebhookSettled(k, o)
    \/ \E k \in DOMAIN handlers : WebhookDone(k)
    \/ \E id \in UrlIds : GetQr(id)
    \/ Exit
SpecQr == Init /\ [][NextQr]_vars

\* Two sessions, the default one and s1 created by request, with up to
\* MaxSock sockets and MaxHandlers suspended handlers at a time, so that either
\* session closes and reconnects while the other is there and the handlers
\* of both are suspended together (the updates are those that carry a
\* connection and no qr; no session is deleted by request).
Connections == {u \in Updates : u.qr = NULL}
NextPair ==
    \/ \E id \in Requests({"s1"}, MaxSock) : CreateSession(id)
    \/ \E c \in BagToSet(inits) : initializeWhatsApp(c)
    \/ \E c \in BagToSet(inits) : initializeFails(c)
    \/ CreateReply
    \/ TimerFire
    \/ \E h \in Handles, u \in Events(Connections, MaxSock, MaxHandlers) :
          ConnectionUpdate(h, u)
    \/ \E k \in DOMAIN handlers, o \in Outcomes : WebhookSettled(k, o)
    \/ \E k \in DOMAIN handlers : WebhookDone(k)
    \/ Exit
SpecPair == Init /\ [][NextPair]_vars
====
